---- MODULE Spec2Model ----
(***************************************************************************)
(* A model of yb/util/net/net_util.cc: the coordinated ephemeral port      *)
(* allocator GetFreePort, and the endpoint parsing / list functions        *)
(* HostPort::ParseString, HostPort::ParseStrings,                          *)
(* HostPort::RemoveAndGetHostPortList and ParseAddressList.                *)
(*                                                                         *)
(* Specifications:                                                         *)
(*   Spec      several allocator instances racing on the lock directory,   *)
(*             with the attempt budget scaled down to AttemptBound;        *)
(*   SpecFull  one allocator instance with the code's own budget of 1000   *)
(*             attempts, the lock directory holding locks of other         *)
(*             processes;                                                  *)
(*   SpecPure  the pure functions, applied to inputs drawn from bounded    *)
(*             sets.                                                       *)
(***************************************************************************)
EXTENDS Integers, Sequences, FiniteSets, TLC

VARIABLES
    pc,            \* each allocator instance's position in GetFreePort
    i,             \* the loop counter of GetFreePort (line 346)
    random_port,   \* the candidate port of the current attempt (line 347)
    sock,          \* the port the probe socket `sock` is bound to, 0 if none
    lock,          \* the local FileLock* `lock`: the port it locks, 0 if null
    file_lock,     \* the caller's std::unique_ptr<FileLock>: the port, 0 if null
    entry_lock,    \* the value of the caller's handle when the call began
    ret,           \* the value GetFreePort returned to the caller, 0 if none
    locked_files,  \* the ports whose lock file /tmp/yb-port-locks/<p>.lck is locked
    max_attempts,  \* the attempt budget of the loop (1000 in the code)
    callers,       \* the allocator instances that call GetFreePort
    op,            \* the pure function under evaluation ("none" in Spec, SpecFull)
    args,          \* its arguments
    out            \* its result, once evaluated

vars == <<pc, i, random_port, sock, lock, file_lock, entry_lock, ret, locked_files,
          max_attempts, callers, op, args, out>>

allocVars == <<pc, i, random_port, sock, lock, file_lock, entry_lock, ret, locked_files,
               max_attempts, callers>>

pureVars == <<op, args, out>>

(***************************************************************************)
(* Bounds of the model.                                                    *)
(***************************************************************************)
NumAllocators == 2
AttemptBound == 2

Allocators == 1..NumAllocators

(***************************************************************************)
(* Program constants.                                                      *)
(***************************************************************************)
kMinPort == 40000
kMaxPort == 65535
kNumAttempts == 1000
kPortLimit == 65535

UInt16 == 65536

\* A value of the 32-bit random source rand.Next() is written as its two 16-bit
\* halves <<hi, lo>>, the value being hi * 2^16 + lo.
U32Mod(r, m) == (((r[1] % m) * (UInt16 % m)) + (r[2] % m)) % m

\* Values of rand.Next() used by the allocator specifications: they give the
\* candidate ports 40000, 40000 again (25536 wraps the modulus) and 56383
\* (from 2^32 - 1).
RandValues == {<<0, 0>>, <<0, 25536>>, <<65535, 65535>>}

(***************************************************************************)
(* GetFreePort, line 347: const uint16_t random_port =                     *)
(*     kMinPort + rand.Next() % (kMaxPort - kMinPort + 1);                 *)
(* The sum is computed in 32 bits and narrowed to the 16-bit port type.    *)
(***************************************************************************)
\* A mutant of RandomPort: the modulus is the whole 16-bit range.
RandomPortWideModulus(r) == (kMinPort + U32Mod(r, UInt16)) % UInt16

RandomPort(r) == (kMinPort + U32Mod(r, kMaxPort - kMinPort + 1)) % UInt16

Ports == {RandomPort(r) : r \in RandValues}

(***************************************************************************)
(* The external collaborators of the allocator.                            *)
(***************************************************************************)
\* Socket::Bind on 127.0.0.1:p can succeed only when no probe socket of the
\* model is bound to p; it can fail in any state (the port is in use by a
\* process outside the model).
BindCanSucceed(p) == \A b \in Allocators : sock[b] # p

\* Env::LockFile(fname, &lock, false): exclusive, non-blocking, non-recursive.
LockFileOk(p) == p \notin locked_files

(***************************************************************************)
(* The caller invokes GetFreePort(&file_lock) (lines 329-340).             *)
(* CreateDirIfMissing either succeeds or the process dies (LOG(FATAL)),    *)
(* dropping the lock its handle may hold from an earlier call.             *)
(***************************************************************************)
Call(a) ==
    /\ a \in callers
    /\ pc[a] \in {"idle", "done"}
    /\ i' = [i EXCEPT ![a] = 0]
    /\ ret' = [ret EXCEPT ![a] = 0]
    /\ entry_lock' = [entry_lock EXCEPT ![a] = file_lock[a]]
    /\ \E created_ok \in BOOLEAN :
         IF created_ok
           THEN /\ pc' = [pc EXCEPT ![a] = "loop"]
                /\ UNCHANGED <<file_lock, locked_files>>
           ELSE /\ pc' = [pc EXCEPT ![a] = "fatal"]
                /\ file_lock' = [file_lock EXCEPT ![a] = 0]
                /\ locked_files' = locked_files \ {file_lock[a]}
    /\ UNCHANGED <<random_port, sock, lock, max_attempts, callers>>
    /\ UNCHANGED pureVars

\* One pass through the head of the loop (lines 346-356, 374-376): i < 1000, a
\* candidate port is drawn and sock.Bind(sock_addr, false) is tried on it.  The
\* draw touches nothing another instance sees, so it is one step with the bind.
TryBind(a) ==
    /\ pc[a] = "loop"
    /\ i[a] < max_attempts
    /\ \E r \in RandValues :
         /\ random_port' = [random_port EXCEPT ![a] = RandomPort(r)]
         /\ \/ /\ BindCanSucceed(RandomPort(r))
               /\ sock' = [sock EXCEPT ![a] = RandomPort(r)]
               /\ pc' = [pc EXCEPT ![a] = "lock"]
            \/ /\ sock' = sock
               /\ pc' = [pc EXCEPT ![a] = "next"]
    /\ UNCHANGED <<i, lock, file_lock, entry_lock, ret, locked_files, max_attempts, callers>>
    /\ UNCHANGED pureVars

\* A mutant of LockStep: the lock status is ignored and the port is taken.
LockStepIgnoresStatus(a) ==
    /\ pc[a] = "lock"
    /\ locked_files' = locked_files \cup {random_port[a]}
    /\ lock' = [lock EXCEPT ![a] = random_port[a]]
    /\ pc' = [pc EXCEPT ![a] = "reset"]
    /\ UNCHANGED <<i, random_port, sock, file_lock, entry_lock, ret, max_attempts, callers>>
    /\ UNCHANGED pureVars

\* A mutant of LockStep: the lock is taken after the probe socket was closed.
LockStepAfterClose(a) ==
    /\ pc[a] = "lock"
    /\ sock' = [sock EXCEPT ![a] = 0]
    /\ IF LockFileOk(random_port[a])
         THEN /\ locked_files' = locked_files \cup {random_port[a]}
              /\ lock' = [lock EXCEPT ![a] = random_port[a]]
              /\ pc' = [pc EXCEPT ![a] = "reset"]
         ELSE /\ UNCHANGED <<locked_files, lock>>
              /\ pc' = [pc EXCEPT ![a] = "next"]
    /\ UNCHANGED <<i, random_port, file_lock, entry_lock, ret, max_attempts, callers>>
    /\ UNCHANGED pureVars

\* env->LockFile(lock_file, &lock, false) and the test of lock_status
\* (lines 363-366, 371-373)
LockStep(a) ==
    /\ pc[a] = "lock"
    /\ IF LockFileOk(random_port[a])
         THEN /\ locked_files' = locked_files \cup {random_port[a]}
              /\ lock' = [lock EXCEPT ![a] = random_port[a]]
              /\ pc' = [pc EXCEPT ![a] = "reset"]
         ELSE /\ UNCHANGED <<locked_files, lock>>
              /\ pc' = [pc EXCEPT ![a] = "next"]
    /\ UNCHANGED <<i, random_port, sock, file_lock, entry_lock, ret, max_attempts, callers>>
    /\ UNCHANGED pureVars

\* file_lock->reset(lock) (lines 367-368): the handle takes the new lock; the lock
\* it held before, if any, is discarded and thereby released.
Reset(a) ==
    /\ pc[a] = "reset"
    /\ file_lock' = [file_lock EXCEPT ![a] = lock[a]]
    /\ locked_files' = IF file_lock[a] # 0 /\ file_lock[a] # lock[a]
                         THEN locked_files \ {file_lock[a]}
                         ELSE locked_files
    /\ lock' = [lock EXCEPT ![a] = 0]
    /\ pc' = [pc EXCEPT ![a] = "return"]
    /\ UNCHANGED <<i, random_port, sock, entry_lock, ret, max_attempts, callers>>
    /\ UNCHANGED pureVars

\* return random_port (line 370): `sock` goes out of scope and is closed.
Return(a) ==
    /\ pc[a] = "return"
    /\ ret' = [ret EXCEPT ![a] = random_port[a]]
    /\ sock' = [sock EXCEPT ![a] = 0]
    /\ pc' = [pc EXCEPT ![a] = "done"]
    /\ UNCHANGED <<i, random_port, lock, file_lock, entry_lock, locked_files, max_attempts, callers>>
    /\ UNCHANGED pureVars

\* A mutant of NextAttempt: the probe socket of a failed attempt stays bound.
NextAttemptLeaksSocket(a) ==
    /\ pc[a] = "next"
    /\ i' = [i EXCEPT ![a] = i[a] + 1]
    /\ pc' = [pc EXCEPT ![a] = "loop"]
    /\ UNCHANGED <<random_port, sock, lock, file_lock, entry_lock, ret, locked_files, max_attempts, callers>>
    /\ UNCHANGED pureVars

\* The end of a failed iteration (lines 371-377): `sock` goes out of scope and
\* is closed, and ++i.
NextAttempt(a) ==
    /\ pc[a] = "next"
    /\ sock' = [sock EXCEPT ![a] = 0]
    /\ i' = [i EXCEPT ![a] = i[a] + 1]
    /\ pc' = [pc EXCEPT ![a] = "loop"]
    /\ UNCHANGED <<random_port, lock, file_lock, entry_lock, ret, locked_files, max_attempts, callers>>
    /\ UNCHANGED pureVars

\* A mutant of Exhausted: the failure is logged and `return 0` is reached.
ExhaustedReturnsZero(a) ==
    /\ pc[a] = "loop"
    /\ i[a] >= max_attempts
    /\ pc' = [pc EXCEPT ![a] = "done"]
    /\ UNCHANGED <<i, random_port, sock, lock, file_lock, entry_lock, ret, locked_files, max_attempts, callers>>
    /\ UNCHANGED pureVars

\* The loop ends without success (lines 379-381): LOG(FATAL) terminates the
\* process, which thereby drops the lock its handle may still hold.
Exhausted(a) ==
    /\ pc[a] = "loop"
    /\ i[a] >= max_attempts
    /\ pc' = [pc EXCEPT ![a] = "fatal"]
    /\ file_lock' = [file_lock EXCEPT ![a] = 0]
    /\ locked_files' = locked_files \ {file_lock[a]}
    /\ UNCHANGED <<i, random_port, sock, lock, entry_lock, ret, max_attempts, callers>>
    /\ UNCHANGED pureVars

\* The caller discards its lock handle: the lock is released.
Release(a) ==
    /\ pc[a] = "done"
    /\ file_lock[a] # 0
    /\ locked_files' = locked_files \ {file_lock[a]}
    /\ file_lock' = [file_lock EXCEPT ![a] = 0]
    /\ ret' = [ret EXCEPT ![a] = 0]
    /\ pc' = [pc EXCEPT ![a] = "idle"]
    /\ UNCHANGED <<i, random_port, sock, lock, entry_lock, max_attempts, callers>>
    /\ UNCHANGED pureVars

PureIdle == op = "none" /\ args = <<>> /\ out = [done |-> FALSE]

AllocInit ==
    /\ pc = [a \in Allocators |-> "idle"]
    /\ i = [a \in Allocators |-> 0]
    /\ random_port = [a \in Allocators |-> 0]
    /\ sock = [a \in Allocators |-> 0]
    /\ lock = [a \in Allocators |-> 0]
    /\ file_lock = [a \in Allocators |-> 0]
    /\ entry_lock = [a \in Allocators |-> 0]
    /\ ret = [a \in Allocators |-> 0]

Init ==
    /\ AllocInit
    /\ locked_files = {}
    /\ max_attempts = AttemptBound
    /\ callers = Allocators
    /\ PureIdle

\* One allocator instance with the code's budget; other processes hold locks.
InitFull ==
    /\ AllocInit
    /\ locked_files \in SUBSET Ports
    /\ max_attempts = kNumAttempts
    /\ callers = {1}
    /\ PureIdle

(***************************************************************************)
(* Text.  A string is a sequence of one-character strings.                 *)
(***************************************************************************)
IsSpace(c) == c = " "

RECURSIVE StripLeading(_)
StripLeading(s) ==
    IF s # <<>> /\ IsSpace(Head(s)) THEN StripLeading(Tail(s)) ELSE s

RECURSIVE StripTrailing(_)
StripTrailing(s) ==
    IF s # <<>> /\ IsSpace(s[Len(s)]) THEN StripTrailing(SubSeq(s, 1, Len(s) - 1)) ELSE s

\* StripWhiteSpace(&p.first) (line 122): leading and trailing whitespace goes.
StripWhiteSpace(s) == StripTrailing(StripLeading(s))

\* The index of the first c in s at or after `from`, 0 if there is none.
RECURSIVE Find(_, _, _)
Find(s, c, from) ==
    IF from > Len(s) THEN 0
    ELSE IF s[from] = c THEN from
    ELSE Find(s, c, from + 1)

\* strings::Split(str, strings::delimiter::Limit(":", 1)) as a pair (line 119):
\* the text before the first delimiter and everything after it.
SplitLimit1(s, d) ==
    LET k == Find(s, d, 1)
    IN  IF k = 0 THEN <<s, <<>>>>
        ELSE <<SubSeq(s, 1, k - 1), SubSeq(s, k + 1, Len(s))>>

\* strcount(str, ':') (line 126)
strcount(s, c) == Cardinality({k \in DOMAIN s : s[k] = c})

\* strings::Split(text, ",") : every piece between delimiters, empty ones too.
RECURSIVE SplitAll(_, _)
SplitAll(s, d) ==
    LET k == Find(s, d, 1)
    IN  IF k = 0 THEN <<s>>
        ELSE <<SubSeq(s, 1, k - 1)>> \o SplitAll(SubSeq(s, k + 1, Len(s)), d)

\* strings::SkipEmpty(): the empty pieces are dropped.
RECURSIVE SkipEmpty(_)
SkipEmpty(pieces) ==
    IF pieces = <<>> THEN <<>>
    ELSE IF Head(pieces) = <<>> THEN SkipEmpty(Tail(pieces))
    ELSE <<Head(pieces)>> \o SkipEmpty(Tail(pieces))

\* strings::Split(text, ",", strings::SkipEmpty()) (lines 89, 175)
Split(s, d) == SkipEmpty(SplitAll(s, d))

Digits == {"0", "1", "2", "3", "4", "5", "6", "7", "8", "9"}

DigitValue(c) ==
    CASE c = "0" -> 0 [] c = "1" -> 1 [] c = "2" -> 2 [] c = "3" -> 3 [] c = "4" -> 4
      [] c = "5" -> 5 [] c = "6" -> 6 [] c = "7" -> 7 [] c = "8" -> 8 [] c = "9" -> 9

RECURSIVE Atoi(_, _)
Atoi(s, acc) == IF s = <<>> THEN acc ELSE Atoi(Tail(s), acc * 10 + DigitValue(Head(s)))

\* SimpleAtoi(p.second, &port) into a uint32 (line 129): an unsigned decimal
\* text.  Texts of up to MaxDigits digits are evaluated (they fit into 32
\* bits); the model's inputs hold no longer ones.
MaxDigits == 9

SimpleAtoi(s) ==
    LET ok == s # <<>> /\ Len(s) <= MaxDigits /\ \A k \in DOMAIN s : s[k] \in Digits
    IN  [ok |-> ok, value |-> IF ok THEN Atoi(s, 0) ELSE 0]

\* The decimal text of a number, as Substitute("$0", n) writes it.
RECURSIVE ToDecimal(_)
ToDecimal(n) ==
    LET d == <<"0", "1", "2", "3", "4", "5", "6", "7", "8", "9">>[(n % 10) + 1]
    IN  IF n < 10 THEN <<d>> ELSE ToDecimal(n \div 10) \o <<d>>

(***************************************************************************)
(* Status values.                                                          *)
(***************************************************************************)
StatusOK == [code |-> "OK", msg |-> <<>>]

\* STATUS(InvalidArgument, "Invalid port", str)
InvalidArgument(str) == [code |-> "InvalidArgument", msg |-> <<"Invalid port: ">> \o str]

\* STATUS(NetworkError, "Unable to resolve address '<host>'", gai_strerror(rc))
NetworkError(host) ==
    [code |-> "NetworkError", msg |-> <<"Unable to resolve address '">> \o host \o <<"'">>]

(***************************************************************************)
(* HostPort                                                                *)
(***************************************************************************)
\* HostPort::HostPort() (lines 68-71)
NewHostPort == [host |-> <<>>, port |-> 0]

\* A mutant of ParseString: the range test of the port is missing.
ParseStringNoRangeTest(hp, str, default_port) ==
    LET p == SplitLimit1(str, ":")
        first == StripWhiteSpace(p[1])
        parsed == SimpleAtoi(p[2])
    IN  IF p[2] = <<>> /\ strcount(str, ":") = 0
          THEN [status |-> StatusOK, hp |-> [host |-> first, port |-> default_port % UInt16]]
        ELSE IF ~parsed.ok
          THEN [status |-> InvalidArgument(str), hp |-> hp]
        ELSE [status |-> StatusOK, hp |-> [host |-> first, port |-> parsed.value % UInt16]]

\* HostPort::ParseString (lines 118-137), applied to the object hp.
ParseString(hp, str, default_port) ==
    LET p == SplitLimit1(str, ":")
        first == StripWhiteSpace(p[1])
        parsed == SimpleAtoi(p[2])
    IN  IF p[2] = <<>> /\ strcount(str, ":") = 0
          THEN [status |-> StatusOK, hp |-> [host |-> first, port |-> default_port % UInt16]]
        ELSE IF ~parsed.ok \/ parsed.value > kPortLimit
          THEN [status |-> InvalidArgument(str), hp |-> hp]
        ELSE [status |-> StatusOK, hp |-> [host |-> first, port |-> parsed.value % UInt16]]

\* A mutant of ParseStrings: each endpoint goes straight into the caller's vector.
RECURSIVE ParseStringsInPlace(_, _, _)
ParseStringsInPlace(addr_strings, default_port, res) ==
    IF addr_strings = <<>> THEN [status |-> StatusOK, res |-> res]
    ELSE LET r == ParseString(NewHostPort, Head(addr_strings), default_port)
         IN  IF r.status.code # "OK" THEN [status |-> r.status, res |-> res]
             ELSE ParseStringsInPlace(Tail(addr_strings), default_port, Append(res, r.hp))

\* The loop of HostPort::ParseStrings (lines 177-181) over the split pieces:
\* RETURN_NOT_OK leaves at the first failure.
RECURSIVE ParseEach(_, _, _)
ParseEach(addr_strings, default_port, host_ports) ==
    IF addr_strings = <<>> THEN [status |-> StatusOK, host_ports |-> host_ports]
    ELSE LET r == ParseString(NewHostPort, Head(addr_strings), default_port)
         IN  IF r.status.code # "OK" THEN [status |-> r.status, host_ports |-> host_ports]
             ELSE ParseEach(Tail(addr_strings), default_port, Append(host_ports, r.hp))

\* A mutant of ParseStrings, as an operator of its three parameters.
ParseStringsPartial(comma_sep_addrs, default_port, res) ==
    ParseStringsInPlace(Split(comma_sep_addrs, ","), default_port, res)

\* HostPort::ParseStrings (lines 172-184): *res is assigned on success only.
ParseStrings(comma_sep_addrs, default_port, res) ==
    LET r == ParseEach(Split(comma_sep_addrs, ","), default_port, <<>>)
    IN  IF r.status.code # "OK" THEN [status |-> r.status, res |-> res]
        ELSE [status |-> StatusOK, res |-> r.host_ports]

\* HostPort::equals(const Sockaddr&) (lines 388-390)
equals(hp, sockaddr) == sockaddr.host = hp.host /\ sockaddr.port = hp.port

\* HostPort::ToString (lines 186-188), Sockaddr::ToString: "host:port".
HostPortToString(x) == x.host \o <<":">> \o ToDecimal(x.port)

\* std::ostringstream::str(text): the buffer's content is replaced by text.
OstreamStr(buf, text) == text

\* The loop writing the input strings (lines 105-108).
RECURSIVE LogLoop(_, _)
LogLoop(addresses, buf) ==
    IF addresses = <<>> THEN buf
    ELSE LogLoop(Tail(addresses), OstreamStr(OstreamStr(buf, Head(addresses)), <<" ">>))

\* STATUS(NotFound, Substitute("Cannot find $0 in master addresses.", remove.ToString()))
NotFound(remove) ==
    [code |-> "NotFound",
     msg |-> <<"Cannot find ">> \o HostPortToString(remove) \o <<" in master addresses.">>]

\* A mutant of RemoveInner: the scan for the target stops at its first match.
RECURSIVE RemoveInnerFirstOnly(_, _, _, _)
RemoveInnerFirstOnly(addr_strings, remove, default_port, st) ==
    IF addr_strings = <<>> THEN st
    ELSE LET r == ParseString(NewHostPort, Head(addr_strings), default_port)
         IN  IF r.status.code # "OK" THEN [st EXCEPT !.status = r.status]
             ELSE IF equals(r.hp, remove) /\ ~st.found
               THEN RemoveInnerFirstOnly(Tail(addr_strings), remove, default_port,
                                         [st EXCEPT !.found = TRUE])
             ELSE RemoveInnerFirstOnly(Tail(addr_strings), remove, default_port,
                                       [st EXCEPT !.res = Append(st.res, r.hp)])

\* The inner loop of RemoveAndGetHostPortList (lines 90-99) over the pieces of
\* one input string; st holds found, *res and the status of RETURN_NOT_OK.
RECURSIVE RemoveInner(_, _, _, _)
RemoveInner(addr_strings, remove, default_port, st) ==
    IF addr_strings = <<>> THEN st
    ELSE LET r == ParseString(NewHostPort, Head(addr_strings), default_port)
         IN  IF r.status.code # "OK" THEN [st EXCEPT !.status = r.status]
             ELSE IF equals(r.hp, remove)
               THEN RemoveInner(Tail(addr_strings), remove, default_port,
                                [st EXCEPT !.found = TRUE])
             ELSE RemoveInner(Tail(addr_strings), remove, default_port,
                              [st EXCEPT !.res = Append(st.res, r.hp)])

\* The outer loop (lines 88-100) over the vector of comma-separated strings.
RECURSIVE RemoveOuter(_, _, _, _)
RemoveOuter(addresses, remove, default_port, st) ==
    IF addresses = <<>> THEN st
    ELSE LET st2 == RemoveInner(Split(Head(addresses), ","), remove, default_port, st)
         IN  IF st2.status.code # "OK" THEN st2
             ELSE RemoveOuter(Tail(addresses), remove, default_port, st2)

\* HostPort::RemoveAndGetHostPortList (lines 81-116).  log is the text handed
\* to LOG(ERROR), <<>> when nothing is logged.
RemoveAndGetHostPortList(remove, multiple_server_addresses, default_port, res) ==
    LET st == RemoveOuter(multiple_server_addresses, remove, default_port,
                          [status |-> StatusOK, res |-> res, found |-> FALSE])
    IN  IF st.status.code # "OK"
          THEN [status |-> st.status, res |-> st.res, log |-> <<>>]
        ELSE IF ~st.found
          THEN [status |-> NotFound(remove), res |-> st.res,
                log |-> LogLoop(multiple_server_addresses,
                                OstreamStr(<<>>, <<"Current list of master addresses: ">>))]
        ELSE [status |-> StatusOK, res |-> st.res, log |-> <<>>]

(***************************************************************************)
(* Resolution.  getaddrinfo is a table dns from host text to a return code *)
(* rc and the addresses found; a host the table lacks does not resolve.    *)
(***************************************************************************)
GetAddrInfo(dns, host) ==
    IF host \in DOMAIN dns THEN dns[host] ELSE [rc |-> 1, ips |-> <<>>]

\* HostPort::ResolveAddresses (lines 139-170): every address found gets port_.
ResolveAddresses(hp, dns) ==
    LET res == GetAddrInfo(dns, hp.host)
    IN  IF res.rc # 0 THEN [status |-> NetworkError(hp.host), addresses |-> <<>>]
        ELSE [status |-> StatusOK,
              addresses |-> [k \in DOMAIN res.ips |-> [host |-> res.ips[k], port |-> hp.port]]]

\* InsertIfNotPresent(&uniqued, addr): whether addr was new, and the set after.
InsertIfNotPresent(uniqued, addr) ==
    [inserted |-> addr \notin uniqued, uniqued |-> uniqued \cup {addr}]

\* A mutant of AddUnique: every address is pushed, seen before or not.
RECURSIVE AddUniqueNoTest(_, _)
AddUniqueNoTest(this_addresses, st) ==
    IF this_addresses = <<>> THEN st
    ELSE AddUniqueNoTest(Tail(this_addresses),
                         [st EXCEPT !.addresses = Append(st.addresses, Head(this_addresses))])

\* The inner loop of ParseAddressList (lines 215-222).
RECURSIVE AddUnique(_, _)
AddUnique(this_addresses, st) ==
    IF this_addresses = <<>> THEN st
    ELSE LET ins == InsertIfNotPresent(st.uniqued, Head(this_addresses))
         IN  AddUnique(Tail(this_addresses),
                       IF ins.inserted
                         THEN [st EXCEPT !.uniqued = ins.uniqued,
                                         !.addresses = Append(st.addresses, Head(this_addresses))]
                         ELSE st)

\* The outer loop of ParseAddressList (lines 209-223).
RECURSIVE ResolveEach(_, _, _)
ResolveEach(host_ports, dns, st) ==
    IF host_ports = <<>> THEN st
    ELSE LET r == ResolveAddresses(Head(host_ports), dns)
         IN  IF r.status.code # "OK" THEN [st EXCEPT !.status = r.status]
             ELSE ResolveEach(Tail(host_ports), dns, AddUnique(r.addresses, st))

\* ParseAddressList (lines 202-225)
ParseAddressList(addr_list, default_port, addresses, dns) ==
    LET parsed == ParseStrings(addr_list, default_port, <<>>)
    IN  IF parsed.status.code # "OK"
          THEN [status |-> parsed.status, addresses |-> addresses]
        ELSE LET st == ResolveEach(parsed.res, dns,
                                   [status |-> StatusOK, uniqued |-> {}, addresses |-> addresses])
             IN  [status |-> st.status, addresses |-> st.addresses]

(***************************************************************************)
(* Inputs of the pure functions.                                           *)
(***************************************************************************)
MaxHostLen == 2
MaxPortLen == 5
MaxSegs == 2
MaxGroups == 2

SeqsUpTo(S, n) == UNION {[1..k -> S] : k \in 0..n}

RECURSIVE Join(_, _)
Join(pieces, d) ==
    IF pieces = <<>> THEN <<>>
    ELSE IF Len(pieces) = 1 THEN Head(pieces)
    ELSE Head(pieces) \o <<d>> \o Join(Tail(pieces), d)

DefaultPorts == {7000}

\* Texts for ParseString: a host part of letters and blanks of up to hostLen
\* characters, then nothing or a colon and a remainder of up to portLen digits,
\* letters and further colons.
ParseTexts(hostLen, portLen) ==
    {h \o t : h \in SeqsUpTo({"h", " "}, hostLen),
              t \in {<<>>} \cup {<<":">> \o r : r \in SeqsUpTo({"3", "5", "6", "h", ":"}, portLen)}}

\* Endpoint texts for the list functions: good ones, differently spelled
\* ones, an empty one and malformed ones.
Segments ==
    { <<>>, <<"h">>, <<"h", ":", "3">>, <<" ", "h", ":", "3">>, <<"g", ":", "3">>,
      <<"g", ":", "5">>, <<"h", ":">>, <<"g", ":", "6", "6", "6", "6", "6">> }

ListTexts(n) == {Join(segs, ",") : segs \in SeqsUpTo(Segments, n)}

AddrSegments == { <<>>, <<"h">>, <<"h", ":", "3">>, <<"g", ":", "3">>, <<"h", ":">> }

AddrListTexts(n) == {Join(segs, ",") : segs \in SeqsUpTo(AddrSegments, n)}

\* The comma-separated strings of a multi-valued configuration.
GroupTexts ==
    { <<"h", ":", "3">>, <<"h">>, <<"g", ":", "5">>,
      <<"g", ":", "3", ",", "h", ":", "3">>,
      <<" ", "h", ":", "3", ",", ",", "g", ":", "5">>,
      <<"h", ":", "3", ",", "g", ":", "5", ",", "h", ":", "3">>,
      <<"g", ":", "3", ",", "h", ":">> }

\* What is in the caller's output vector before the call.
PriorHostPorts == { <<>>, <<[host |-> <<"g">>, port |-> 5]>> }
PriorAddresses == { <<>>, <<[host |-> <<"1">>, port |-> 3]>> }

Targets == { [host |-> <<"h">>, port |-> 3], [host |-> <<"g">>, port |-> 5] }

\* Resolver tables: each host fails, or resolves to one or two addresses.
Resolutions ==
    { [rc |-> 1, ips |-> <<>>], [rc |-> 0, ips |-> <<<<"1">>>>], [rc |-> 0, ips |-> <<<<"2">>>>],
      [rc |-> 0, ips |-> <<<<"1">>, <<"2">>>>], [rc |-> 0, ips |-> <<<<"1">>, <<"1">>>>] }

DnsTables == [{<<"h">>, <<"g">>} -> Resolutions]

\* Values of rand.Next() for the port computation alone: both ends of the
\* 32-bit range and the neighbourhood of every multiple of the modulus that
\* the low half can show.
RandSamples ==
    {<<hi, lo>> : hi \in {0, 1, 25535, 25536, 32767, 32768, 65535},
                  lo \in {0, 1, 14463, 14464, 25535, 25536, 25537, 39999, 40000,
                          51071, 51072, 65534, 65535}}

NotEvaluated == [done |-> FALSE]

PureInit ==
    /\ out = NotEvaluated
    /\ \/ /\ op = "ParseString"
          /\ args \in [str : ParseTexts(MaxHostLen, MaxPortLen), default_port : DefaultPorts]
       \/ /\ op = "ParseStrings"
          /\ args \in [comma_sep_addrs : ListTexts(MaxSegs), default_port : {7000}, res : PriorHostPorts]
       \/ /\ op = "RemoveAndGetHostPortList"
          /\ args \in [remove : Targets,
                       multiple_server_addresses : SeqsUpTo(GroupTexts, MaxGroups),
                       default_port : {3}, res : PriorHostPorts]
       \/ /\ op = "ParseAddressList"
          /\ args \in [addr_list : AddrListTexts(MaxSegs), default_port : {3},
                       addresses : PriorAddresses, dns : DnsTables]
       \/ /\ op = "RandomPort"
          /\ args \in [rand : RandSamples]

InitPure ==
    /\ AllocInit
    /\ locked_files = {}
    /\ max_attempts = kNumAttempts
    /\ callers = {}
    /\ PureInit

EvalParseString ==
    /\ op = "ParseString" /\ ~out.done
    /\ out' = [done |-> TRUE] @@ ParseString(NewHostPort, args.str, args.default_port)
    /\ UNCHANGED <<op, args>> /\ UNCHANGED allocVars

EvalParseStrings ==
    /\ op = "ParseStrings" /\ ~out.done
    /\ out' = [done |-> TRUE] @@ ParseStrings(args.comma_sep_addrs, args.default_port, args.res)
    /\ UNCHANGED <<op, args>> /\ UNCHANGED allocVars

EvalRemoveAndGetHostPortList ==
    /\ op = "RemoveAndGetHostPortList" /\ ~out.done
    /\ out' = [done |-> TRUE] @@
                RemoveAndGetHostPortList(args.remove, args.multiple_server_addresses,
                                         args.default_port, args.res)
    /\ UNCHANGED <<op, args>> /\ UNCHANGED allocVars

EvalParseAddressList ==
    /\ op = "ParseAddressList" /\ ~out.done
    /\ out' = [done |-> TRUE] @@
                ParseAddressList(args.addr_list, args.default_port, args.addresses, args.dns)
    /\ UNCHANGED <<op, args>> /\ UNCHANGED allocVars

EvalRandomPort ==
    /\ op = "RandomPort" /\ ~out.done
    /\ out' = [done |-> TRUE, random_port |-> RandomPort(args.rand)]
    /\ UNCHANGED <<op, args>> /\ UNCHANGED allocVars

NextPure ==
    \/ EvalParseString
    \/ EvalParseStrings
    \/ EvalRemoveAndGetHostPortList
    \/ EvalParseAddressList
    \/ EvalRandomPort

SpecPure == InitPure /\ [][NextPure]_vars

Next ==
    \E a \in Allocators :
        \/ Call(a)
        \/ TryBind(a)
        \/ LockStep(a)
        \/ Reset(a)
        \/ Return(a)
        \/ NextAttempt(a)
        \/ Exhausted(a)
        \/ Release(a)

Spec == Init /\ [][Next]_vars

SpecFull == InitFull /\ [][Next]_vars

(***************************************************************************)
(* The allocator's properties.                                             *)
(***************************************************************************)
InAttempt(a) == pc[a] \in {"lock", "reset", "return", "next"}

\* C1: no two allocator instances hold the same port at the same time: while
\* the handle of one instance holds the lock of port p, no other instance's
\* handle holds p, and no two instances are both back from GetFreePort with
\* the same returned port.
C1_NoTwoHoldSamePort ==
    \A a, b \in Allocators :
        a # b =>
            /\ file_lock[a] # 0 => file_lock[b] # file_lock[a]
            /\ (pc[a] = "done" /\ pc[b] = "done") => ret[a] # ret[b]
            /\ (pc[b] = "done" /\ file_lock[a] # 0) => ret[b] # file_lock[a]

\* The race of C1: one instance holds port p, and another has bound its probe
\* socket to p and was refused the lock.
C1_Witness ==
    \E a, b \in Allocators :
        /\ a # b
        /\ pc[a] = "done" /\ ret[a] # 0 /\ file_lock[a] = ret[a]
        /\ pc[b] = "next" /\ sock[b] = ret[a] /\ random_port[b] = ret[a]

\* C2: GetFreePort makes at most 1000 attempts; when it has returned, the value
\* is a port (never 0) and the caller's handle holds the lock of that very
\* port; otherwise it ends in the fatal termination, after the 1000th attempt
\* (or before the first, when the lock directory cannot be made), and nothing
\* is returned.
C2_ReturnsLockedPortOrDies ==
    \A a \in Allocators :
        /\ i[a] <= kNumAttempts
        /\ InAttempt(a) => i[a] < kNumAttempts
        /\ pc[a] = "done" =>
              /\ ret[a] \in kMinPort..kMaxPort
              /\ file_lock[a] = ret[a]
              /\ ret[a] \in locked_files
        /\ pc[a] = "fatal" => (ret[a] = 0 /\ i[a] \in {0, kNumAttempts})
        /\ pc[a] \notin {"done"} => ret[a] = 0

\* The allocator has used up all 1000 attempts and terminated the process.
C2_Witness ==
    \E a \in Allocators : pc[a] = "fatal" /\ i[a] = kNumAttempts /\ ret[a] = 0

\* C3: the candidate port computed from any value of the 32-bit random source
\* lies in [40000, 65535].
C3_PortInRange ==
    (op = "RandomPort" /\ out.done) =>
        (out.random_port >= 40000 /\ out.random_port <= 65535)

\* The top of the range is drawn: the sum reaches 65535 and does not wrap.
C3_Witness ==
    /\ op = "RandomPort" /\ out.done
    /\ args.rand = <<0, 25535>>
    /\ out.random_port = 65535

\* C9: after a failed attempt, at the point where the next candidate is drawn,
\* the probe socket is not bound, the allocator holds no lock of its own, no
\* lock file is locked but by a handle, the caller's handle is what it was at
\* the call, and nothing has been returned or ended.
C9_FailedAttemptUnwinds ==
    /\ \A a \in Allocators :
          pc[a] = "loop" =>
              /\ sock[a] = 0
              /\ lock[a] = 0
              /\ file_lock[a] = entry_lock[a]
              /\ ret[a] = 0
    /\ locked_files = ({file_lock[b] : b \in Allocators} \cup {lock[b] : b \in Allocators}) \ {0}

\* An allocator is back at the top of the loop after an attempt on a port whose
\* lock another instance holds.
C9_Witness ==
    \E a, b \in Allocators :
        /\ a # b
        /\ pc[a] = "loop" /\ i[a] > 0 /\ i[a] < max_attempts
        /\ file_lock[b] = random_port[a] /\ pc[b] = "done"
        /\ sock[a] = 0 /\ file_lock[a] = 0

\* C10: the lock of port p is attempted only while the allocator's probe socket
\* is bound to p, and the socket stays bound over the attempt; the socket is
\* released only once the lock attempt is decided; and after the return the
\* socket is released while the caller's handle holds the lock.
C10_LockWhileBound ==
    /\ [](\A a \in Allocators :
            /\ pc[a] = "lock" => (sock[a] = random_port[a] /\ sock[a] # 0)
            /\ pc[a] = "done" =>
                  (sock[a] = 0 /\ file_lock[a] = ret[a] /\ ret[a] \in locked_files))
    /\ [][\A a \in Allocators :
            /\ (pc[a] = "lock" /\ pc'[a] # "lock") =>
                  (sock[a] = random_port[a] /\ sock'[a] = sock[a])
            /\ (lock[a] = 0 /\ lock'[a] # 0) =>
                  (sock[a] = lock'[a] /\ sock'[a] = lock'[a])
            /\ (sock[a] # 0 /\ sock'[a] = 0) => pc[a] \in {"return", "next"}]_vars

\* One instance is back with port p, its socket released and its lock held,
\* while another instance's probe socket is bound to the same p.
C10_Witness ==
    \E a, b \in Allocators :
        /\ a # b
        /\ pc[a] = "done" /\ sock[a] = 0 /\ file_lock[a] = ret[a] /\ ret[a] \in locked_files
        /\ sock[b] = ret[a] /\ pc[b] = "lock"

(***************************************************************************)
(* The properties of the parsing and list functions.                       *)
(***************************************************************************)
Range(seq) == {seq[k] : k \in DOMAIN seq}

\* The first position of x in seq (x occurs in seq).
FirstIndex(seq, x) == CHOOSE k \in DOMAIN seq : seq[k] = x /\ \A j \in 1..(k - 1) : seq[j] # x

\* Whether needle occurs in hay as a run of consecutive characters.
Contains(hay, needle) ==
    \E j \in 0..(Len(hay) - Len(needle)) : SubSeq(hay, j + 1, j + Len(needle)) = needle

\* seq without its element at position k.
RemoveAt(seq, k) == SubSeq(seq, 1, k - 1) \o SubSeq(seq, k + 1, Len(seq))

\* The non-empty comma-separated pieces of all the strings of a vector, in order.
RECURSIVE FlatPieces(_)
FlatPieces(texts) ==
    IF texts = <<>> THEN <<>> ELSE Split(Head(texts), ",") \o FlatPieces(Tail(texts))

\* What each piece parses to.
ParsedPieces(pieces, default_port) ==
    [k \in DOMAIN pieces |-> ParseString(NewHostPort, pieces[k], default_port)]

AllParse(parsed) == \A k \in DOMAIN parsed : parsed[k].status.code = "OK"

Endpoints(parsed) == [k \in DOMAIN parsed |-> parsed[k].hp]

RemoveDone == op = "RemoveAndGetHostPortList" /\ out.done

RemoveFlat == Endpoints(ParsedPieces(FlatPieces(args.multiple_server_addresses), args.default_port))

RemoveAllParse == AllParse(ParsedPieces(FlatPieces(args.multiple_server_addresses), args.default_port))

Matches(seq, remove) == {k \in DOMAIN seq : equals(seq[k], remove)}

\* C4, as claimed: with inputs that all parse and hold the target, only the
\* first endpoint equal to the target is removed; later ones stay.
C4_RemovesFirstOnly ==
    (RemoveDone /\ RemoveAllParse /\ Matches(RemoveFlat, args.remove) # {}) =>
        LET first == CHOOSE k \in Matches(RemoveFlat, args.remove) :
                         \A j \in Matches(RemoveFlat, args.remove) : k <= j
        IN  /\ out.status.code = "OK"
            /\ out.res = args.res \o RemoveAt(RemoveFlat, first)

\* C4, amended: with inputs that all parse and hold the target, every endpoint
\* equal to the target is removed, and all the others are appended to the
\* caller's vector in input order; a target that occurs once leaves the
\* flattened list without that one element.
C4_RemovesEveryMatch ==
    (RemoveDone /\ RemoveAllParse /\ Matches(RemoveFlat, args.remove) # {}) =>
        LET Keep(hp) == ~equals(hp, args.remove)
        IN  /\ out.status.code = "OK"
            /\ out.res = args.res \o SelectSeq(RemoveFlat, Keep)
            /\ \A k \in DOMAIN out.res : k > Len(args.res) => ~equals(out.res[k], args.remove)
            /\ Cardinality(Matches(RemoveFlat, args.remove)) = 1 =>
                  \E k \in DOMAIN RemoveFlat :
                      /\ equals(RemoveFlat[k], args.remove)
                      /\ out.res = args.res \o RemoveAt(RemoveFlat, k)

\* The target occurs more than once in the flattened list.
C4_Witness ==
    /\ RemoveDone /\ RemoveAllParse
    /\ Cardinality(Matches(RemoveFlat, args.remove)) >= 2
    /\ out.status.code = "OK"

\* C5: when no parsed endpoint equals the target, the call fails with NotFound
\* and the message of that error holds every input address string.
C5_NotFoundListsInputs ==
    (RemoveDone /\ RemoveAllParse /\ Matches(RemoveFlat, args.remove) = {}) =>
        /\ out.status.code = "NotFound"
        /\ \A k \in DOMAIN args.multiple_server_addresses :
              Contains(out.status.msg, args.multiple_server_addresses[k])

ResolveDone == op = "ParseAddressList" /\ out.done

ResolveParsed == ParsedPieces(Split(args.addr_list, ","), args.default_port)

ResolveAllOk ==
    /\ AllParse(ResolveParsed)
    /\ \A k \in DOMAIN ResolveParsed : GetAddrInfo(args.dns, ResolveParsed[k].hp.host).rc = 0

\* Every resolved address of every endpoint, in input order.
RECURSIVE AllResolved(_, _)
AllResolved(hps, dns) ==
    IF hps = <<>> THEN <<>>
    ELSE LET ips == GetAddrInfo(dns, Head(hps).host).ips
         IN  [k \in DOMAIN ips |-> [host |-> ips[k], port |-> Head(hps).port]]
             \o AllResolved(Tail(hps), dns)

\* C6: when every endpoint parses and resolves, the call succeeds, and the
\* sequence it produces (what it appends to the caller's vector) holds each
\* resolved (IP, port) exactly once, in the order of first appearance.
C6_FirstOccurrencesKept ==
    (ResolveDone /\ ResolveAllOk) =>
        LET all == AllResolved(Endpoints(ResolveParsed), args.dns)
            n == Len(args.addresses)
            produced == SubSeq(out.addresses, n + 1, Len(out.addresses))
        IN  /\ out.status.code = "OK"
            /\ SubSeq(out.addresses, 1, n) = args.addresses
            /\ Range(produced) = Range(all)
            /\ \A j, k \in DOMAIN produced : j # k => produced[j] # produced[k]
            /\ \A j, k \in DOMAIN produced :
                  j < k => FirstIndex(all, produced[j]) < FirstIndex(all, produced[k])

\* Two differently spelled hosts resolve to the same address and port: two
\* resolved addresses, one entry produced.
C6_Witness ==
    /\ ResolveDone /\ ResolveAllOk
    /\ args.addr_list = <<"h", ",", "g", ":", "3">>
    /\ args.dns[<<"h">>].ips = <<<<"1">>>> /\ args.dns[<<"g">>].ips = <<<<"1">>>>
    /\ args.addresses = <<>>
    /\ out.addresses = <<[host |-> <<"1">>, port |-> 3]>>

ParseDone == op = "ParseString" /\ out.done

HasColon(s) == \E k \in DOMAIN s : s[k] = ":"

FirstColon(s) == CHOOSE k \in DOMAIN s : s[k] = ":" /\ \A j \in 1..(k - 1) : s[j] # ":"

\* s is host with blanks before and after it, and host starts and ends with none.
IsTrimOf(host, s) ==
    /\ host = <<>> \/ (host[1] # " " /\ host[Len(host)] # " ")
    /\ \E lead, trail \in 0..Len(s) :
          /\ lead + Len(host) + trail = Len(s)
          /\ \A k \in 1..lead : s[k] = " "
          /\ \A k \in 1..trail : s[Len(s) + 1 - k] = " "
          /\ SubSeq(s, lead + 1, lead + Len(host)) = host

\* The number a text of digits denotes.
DecimalValue(s) ==
    LET Pow10[n \in 0..Len(s)] == IF n = 0 THEN 1 ELSE 10 * Pow10[n - 1]
        Sum[k \in 0..Len(s)] ==
            IF k = 0 THEN 0 ELSE Sum[k - 1] + DigitValue(s[k]) * Pow10[Len(s) - k]
    IN  Sum[Len(s)]

IsDecimal(s) == s # <<>> /\ \A k \in DOMAIN s : s[k] \in Digits

\* C7: without a colon the text parses to its trimmed self and the default
\* port; with a colon it parses exactly when all that follows the first colon
\* is a decimal number of at most 65535, the port then being that number and
\* the host the trimmed text before the colon; every other text with a colon
\* fails with InvalidArgument.
C7_ParseString ==
    ParseDone =>
        LET s == args.str
        IN  IF ~HasColon(s)
              THEN /\ out.status.code = "OK"
                   /\ IsTrimOf(out.hp.host, s)
                   /\ out.hp.port = args.default_port
            ELSE LET c == FirstColon(s)
                     rest == SubSeq(s, c + 1, Len(s))
                 IN  IF IsDecimal(rest) /\ DecimalValue(rest) <= 65535
                       THEN /\ out.status.code = "OK"
                            /\ out.hp.port = DecimalValue(rest)
                            /\ IsTrimOf(out.hp.host, SubSeq(s, 1, c - 1))
                       ELSE /\ out.status.code = "InvalidArgument"
                            /\ out.hp = NewHostPort

\* A port one above the 16-bit range is refused.
C7_Witness ==
    /\ ParseDone
    /\ args.str = <<" ", "h", ":", "6", "5", "5", "3", "6">>
    /\ out.status.code = "InvalidArgument"

ListDone == op = "ParseStrings" /\ out.done

ListParsed == ParsedPieces(Split(args.comma_sep_addrs, ","), args.default_port)

\* C8: empty segments are skipped; when every segment parses the result is
\* the endpoints in input order; otherwise the first failure is returned and
\* the caller's vector is what it was before the call.
C8_ParseStrings ==
    ListDone =>
        LET text == args.comma_sep_addrs
            pieces == Split(text, ",")
            starts == {k \in DOMAIN text : text[k] # "," /\ (k = 1 \/ text[k - 1] = ",")}
            NotComma(c) == c # ","
            Concat[k \in 0..Len(pieces)] == IF k = 0 THEN <<>> ELSE Concat[k - 1] \o pieces[k]
        IN  /\ Len(pieces) = Cardinality(starts)
            /\ \A k \in DOMAIN pieces : pieces[k] # <<>> /\ "," \notin Range(pieces[k])
            /\ Concat[Len(pieces)] = SelectSeq(text, NotComma)
            /\ IF AllParse(ListParsed)
                 THEN /\ out.status.code = "OK"
                      /\ out.res = Endpoints(ListParsed)
                      /\ Len(out.res) = Cardinality(starts)
                 ELSE LET bad == CHOOSE k \in DOMAIN ListParsed :
                                    /\ ListParsed[k].status.code # "OK"
                                    /\ \A j \in 1..(k - 1) : ListParsed[j].status.code = "OK"
                      IN  /\ out.status = ListParsed[bad].status
                          /\ out.res = args.res

\* A segment parses, a later one does not, and the caller's vector held an
\* endpoint before the call.
C8_Witness ==
    /\ ListDone
    /\ args.comma_sep_addrs = <<"g", ":", "3", ",", "h", ":">>
    /\ args.res # <<>>
    /\ out.status.code = "InvalidArgument"
    /\ out.res = args.res

====
